---- MODULE Spec2Model ----
(***************************************************************************)
(* A model of the Go implementation of Variants (package variants):        *)
(* the Registry of flags and variants (src/go/variants/registry.go) and    *)
(* the evaluation of variants and conditions (src/go/condition.go).        *)
(***************************************************************************)
EXTENDS Integers, Sequences, FiniteSets, TLC

VARIABLES
    flags,               \* Registry.flags: flag name -> Flag
    variants,            \* Registry.variants: variant id -> Variant
    conditionSpecs,      \* Registry.conditionSpecs: type id -> factory
    flagToVariantIDMap,  \* Registry.flagToVariantIDMap: flag name -> set of ids
    last,                \* the call that returned last, with its arguments and results
    mu,                  \* Registry.RWMutex: the goroutine holding the write lock, and
                         \* the goroutines holding the read lock
    pc,                  \* where each goroutine is in its call
    frame,               \* the arguments and the local variables of each goroutine's call
    pre,                 \* the registry as it was when each goroutine's call began
    fatal,               \* the runtime has stopped the program with a fatal error
    defaultRegistryMu    \* the RWMutex of the package that guards the DefaultRegistry

vars == <<flags, variants, conditionSpecs, flagToVariantIDMap, last, mu, pc, frame, pre, fatal,
          defaultRegistryMu>>

\* What the calls made one after the other leave alone.
goroutines == <<mu, pc, frame, pre, fatal, defaultRegistryMu>>

-----------------------------------------------------------------------------
(* Bounds of the model. *)

\* The longest flag_defs list of a configuration document.
MaxDocFlags == 2

\* float64 values (JSON numbers, what rand.Float64() returns) are counted in units
\* of 1/RandScale.
RandScale == 2

-----------------------------------------------------------------------------
(* Go values of type interface{}: a tagged union. *)

NilV == [t |-> "nil", n |-> 0, s |-> ""]

BoolV(b) == [t |-> "bool", n |-> IF b THEN 1 ELSE 0, s |-> ""]

\* A JSON number (float64): n units of 1/RandScale.
NumV(n) == [t |-> "float64", n |-> n, s |-> ""]

StrV(s) == [t |-> "string", n |-> 0, s |-> s]

(* Go maps: functions whose domain is the set of keys present. *)

EmptyMap == [k \in {} |-> NilV]

MapPut(m, k, v) == [x \in (DOMAIN m) \cup {k} |-> IF x = k THEN v ELSE m[x]]

MapDelete(m, k) == [x \in (DOMAIN m) \ {k} |-> m[x]]

SeqsUpTo(S, n) == UNION {[1..k -> S] : k \in 0..n}

-----------------------------------------------------------------------------
(* The data types. *)

Flag(name, base) == [Name |-> name, BaseValue |-> base]

Mod(flagName, value) == [FlagName |-> flagName, Value |-> value]

\* A condition function (the closure a factory returns); kind "nil" is the nil func.
NoEvaluator == [kind |-> "nil", v |-> 0, key |-> "", rangeBegin |-> 0, rangeEnd |-> 0]

Condition(type, value, values) ==
    [Type |-> type, Value |-> value, Values |-> values, Evaluator |-> NoEvaluator]

Variant(id, mods, operator, conditions) ==
    [ID |-> id, Mods |-> mods, ConditionalOperator |-> operator,
     Conditions |-> conditions]

\* The zero value of Variant, which a lookup of an absent key in r.variants gives.
ZeroVariant == Variant("", <<>>, "", <<>>)

\* The zero value of Flag.
ZeroFlag == Flag("", NilV)

conditionalOperatorAnd == "AND"

conditionalOperatorOr == "OR"

conditionTypeRandom == "RANDOM"

conditionTypeModRange == "MOD_RANGE"

\* Contexts: nil, or a map[string]int.
NilContext == [kind |-> "nil", m |-> EmptyMap]

IntMapContext(m) == [kind |-> "map[string]int", m |-> m]

-----------------------------------------------------------------------------
(* Conditions and variants: src/go/condition.go *)

\* Go's % truncates towards zero.
GoRem(a, b) == IF a >= 0 THEN a % b ELSE -((-a) % b)

\* int(x) of a float64 of n units: the fraction is cut off, towards zero.
GoInt(n) == IF n >= 0 THEN n \div RandScale ELSE -((-n) \div RandScale)

\* The RANDOM closure with the comparison turned round.
RandomEvaluatorInverted(e, rnd) == rnd >= e.v

\* The closure returned by the RANDOM factory; rnd is the value rand.Float64() returns.
RandomEvaluator(e, rnd) == rnd <= e.v

\* The MOD_RANGE closure with the end of the range left out.
ModRangeEvaluatorExclusive(e, context) ==
    IF context.kind # "map[string]int"
    THEN FALSE
    ELSE LET v == IF e.key \in DOMAIN context.m THEN context.m[e.key] ELSE 0
             mod == GoRem(v, 100)
         IN  mod >= e.rangeBegin /\ mod < e.rangeEnd

\* The closure returned by the MOD_RANGE factory.
ModRangeEvaluator(e, context) ==
    IF context.kind # "map[string]int"
    THEN FALSE
    ELSE LET v == IF e.key \in DOMAIN context.m THEN context.m[e.key] ELSE 0
             mod == GoRem(v, 100)
         IN  mod >= e.rangeBegin /\ mod <= e.rangeEnd

\* Condition.Evaluate without the test for the nil Evaluator.
ConditionEvaluateNoNilTest(c, context, rnd) ==
    IF c.Evaluator.kind = "random"
    THEN RandomEvaluator(c.Evaluator, rnd)
    ELSE ModRangeEvaluator(c.Evaluator, context)

\* Condition.Evaluate
ConditionEvaluate(c, context, rnd) ==
    IF c.Evaluator.kind = "nil"
    THEN FALSE
    ELSE IF c.Evaluator.kind = "random"
         THEN RandomEvaluator(c.Evaluator, rnd)
         ELSE ModRangeEvaluator(c.Evaluator, context)

\* Variant.FlagValue: the value of the first Mod for name, nil when there is none.
RECURSIVE ModScan(_, _, _)
ModScan(mods, name, i) ==
    IF i > Len(mods) THEN NilV
    ELSE IF mods[i].FlagName = name THEN mods[i].Value
    ELSE ModScan(mods, name, i + 1)

VariantFlagValue(v, name) == ModScan(v.Mods, name, 1)

\* Variant.Evaluate with the loop of AND in the branch of OR.
VariantEvaluateOrAsAnd(v, context, rnds) ==
    IF Len(v.Conditions) = 1 \/ v.ConditionalOperator = conditionalOperatorAnd
       \/ v.ConditionalOperator = conditionalOperatorOr
    THEN \A i \in 1..Len(v.Conditions) : ConditionEvaluate(v.Conditions[i], context, rnds[i])
    ELSE FALSE

\* Variant.Evaluate with every operator that is not OR taken for AND.
VariantEvaluateDefaultAnd(v, context, rnds) ==
    IF v.ConditionalOperator = conditionalOperatorOr /\ Len(v.Conditions) # 1
    THEN \E i \in 1..Len(v.Conditions) : ConditionEvaluate(v.Conditions[i], context, rnds[i])
    ELSE \A i \in 1..Len(v.Conditions) : ConditionEvaluate(v.Conditions[i], context, rnds[i])

\* Variant.Evaluate; rnds[i] is what rand.Float64() returns to condition i.
VariantEvaluate(v, context, rnds) ==
    IF Len(v.Conditions) = 1 \/ v.ConditionalOperator = conditionalOperatorAnd
    THEN \A i \in 1..Len(v.Conditions) : ConditionEvaluate(v.Conditions[i], context, rnds[i])
    ELSE IF v.ConditionalOperator = conditionalOperatorOr
         THEN \E i \in 1..Len(v.Conditions) : ConditionEvaluate(v.Conditions[i], context, rnds[i])
         ELSE FALSE

\* The values rand.Float64() can return: [0, 1), in units of 1/RandScale.
RandSamples == 0..(RandScale - 1)

\* The results Variant.Evaluate can give, over the values of the random source.
EvaluateOutcomes(v, context) ==
    {VariantEvaluate(v, context, rnds) : rnds \in [1..Len(v.Conditions) -> RandSamples]}

-----------------------------------------------------------------------------
(* The Registry: src/go/variants/registry.go *)

\* strings.ToUpper, on the type ids the model uses.
ToUpper(s) ==
    CASE s = "random" -> "RANDOM"
      [] s = "Random" -> "RANDOM"
      [] s = "mod_range" -> "MOD_RANGE"
      [] s = "custom" -> "CUSTOM"
      [] OTHER -> s

\* The factory registered for RANDOM; the evaluator "panic" stands for a run-time panic.
RandomSpec(values) ==
    IF values[1].t # "float64" \/ values[1].n < 0 \/ values[1].n > RandScale
    THEN NoEvaluator
    ELSE [NoEvaluator EXCEPT !.kind = "random", !.v = values[1].n]

\* The factory registered for MOD_RANGE.
ModRangeSpec(values) ==
    IF Len(values) # 3
    THEN NoEvaluator
    ELSE IF values[1].t # "string" \/ values[2].t # "float64" \/ values[3].t # "float64"
         THEN [NoEvaluator EXCEPT !.kind = "panic"]
         ELSE LET rangeBegin == GoInt(values[2].n)
                  rangeEnd == GoInt(values[3].n)
              IN  IF rangeBegin > rangeEnd
                  THEN NoEvaluator
                  ELSE [NoEvaluator EXCEPT !.kind = "modrange", !.key = values[1].s,
                                           !.rangeBegin = rangeBegin, !.rangeEnd = rangeEnd]

\* Calling a registered factory fn with values.
ApplySpec(fn, values) ==
    IF fn = "randomSpec" THEN RandomSpec(values) ELSE ModRangeSpec(values)

\* A Registry value: the four maps.
RegistryOf(fl, va, cs, ix) ==
    [flags |-> fl, variants |-> va, conditionSpecs |-> cs, flagToVariantIDMap |-> ix]

\* The result of a call: the registry it leaves and the error it returns.
Result(reg, err) == [reg |-> reg, err |-> err]

\* RegisterConditionType without strings.ToUpper.
RegisterConditionTypeAsGiven(reg, id, fn) ==
    IF id \in DOMAIN reg.conditionSpecs
    THEN Result(reg, "error")
    ELSE Result([reg EXCEPT !.conditionSpecs = MapPut(@, id, fn)], "nil")

\* Registry.RegisterConditionType
RegisterConditionTypeOp(reg, id, fn) ==
    LET up == ToUpper(id)
    IN  IF up \in DOMAIN reg.conditionSpecs
        THEN Result(reg, "error")
        ELSE Result([reg EXCEPT !.conditionSpecs = MapPut(@, up, fn)], "nil")

\* Registry.registerBuiltInConditionTypes
registerBuiltInConditionTypes(reg) ==
    RegisterConditionTypeOp(
        RegisterConditionTypeOp(reg, conditionTypeRandom, "randomSpec").reg,
        conditionTypeModRange, "modRangeSpec").reg

\* NewRegistry
NewRegistry ==
    registerBuiltInConditionTypes(RegistryOf(EmptyMap, EmptyMap, EmptyMap, EmptyMap))

\* Registry.AddFlag
AddFlagOp(reg, f) ==
    IF f.Name \in DOMAIN reg.flags
    THEN Result(reg, "error")
    ELSE Result([reg EXCEPT !.flags = MapPut(@, f.Name, f),
                            !.flagToVariantIDMap = MapPut(@, f.Name, {})], "nil")

\* The loop of AddVariant going on to the next Mod when a flag is not registered.
RECURSIVE AddVariantModsSkipping(_, _, _)
AddVariantModsSkipping(reg, v, i) ==
    IF i > Len(v.Mods)
    THEN Result([reg EXCEPT !.variants = MapPut(@, v.ID, v)], "nil")
    ELSE IF v.Mods[i].FlagName \notin DOMAIN reg.flags
         THEN AddVariantModsSkipping(reg, v, i + 1)
         ELSE AddVariantModsSkipping(
                  [reg EXCEPT !.flagToVariantIDMap[v.Mods[i].FlagName] = @ \cup {v.ID}],
                  v, i + 1)

\* The loop of Registry.AddVariant over v.Mods, from the i-th Mod on, and the store
\* of the variant after it.
RECURSIVE AddVariantMods(_, _, _)
AddVariantMods(reg, v, i) ==
    IF i > Len(v.Mods)
    THEN Result([reg EXCEPT !.variants = MapPut(@, v.ID, v)], "nil")
    ELSE IF v.Mods[i].FlagName \notin DOMAIN reg.flags
         THEN Result(reg, "error")
         ELSE AddVariantMods(
                  [reg EXCEPT !.flagToVariantIDMap[v.Mods[i].FlagName] = @ \cup {v.ID}],
                  v, i + 1)

\* AddVariant without the lookup of the id: a variant is added over a stored one.
AddVariantNoLookup(reg, v) == AddVariantMods(reg, v, 1)

\* Registry.AddVariant
AddVariantOp(reg, v) ==
    IF v.ID \in DOMAIN reg.variants
    THEN Result(reg, "error")
    ELSE AddVariantMods(reg, v, 1)

\* One turn of the loop of Registry.LoadJSON over a variant's conditions: a
\* condition whose type has a registered factory gets the evaluator the factory builds.
BuildCondition(reg, c) ==
    LET values == IF Len(c.Values) = 0 THEN <<c.Value>> ELSE c.Values
    IN  IF c.Type \in DOMAIN reg.conditionSpecs
        THEN [c EXCEPT !.Evaluator = ApplySpec(reg.conditionSpecs[c.Type], values)]
        ELSE c

BuildConditions(reg, conditions) ==
    [i \in 1..Len(conditions) |-> BuildCondition(reg, conditions[i])]

\* The first loop of Registry.LoadJSON, from the i-th flag of the document on.
RECURSIVE LoadFlags(_, _, _)
LoadFlags(reg, fs, i) ==
    IF i > Len(fs)
    THEN Result(reg, "nil")
    ELSE LET res == AddFlagOp(reg, fs[i])
         IN  IF res.err # "nil" THEN res ELSE LoadFlags(res.reg, fs, i + 1)

\* LoadVariant without the check of the number of Mods.
LoadVariantNoModsCheck(reg, v) ==
    IF Len(v.Conditions) > 1 /\ Len(v.ConditionalOperator) = 0
    THEN Result(reg, "error")
    ELSE LET built == BuildConditions(reg, v.Conditions)
         IN  IF \E i \in 1..Len(built) : built[i].Evaluator.kind = "panic"
             THEN Result(reg, "panic")
             ELSE AddVariantOp(reg, [v EXCEPT !.Conditions = built])

\* One turn of the second loop of Registry.LoadJSON: the checks of variant v, the
\* building of its conditions, and AddVariant.
LoadVariant(reg, v) ==
    IF Len(v.Mods) = 0
    THEN Result(reg, "error")
    ELSE IF Len(v.Conditions) > 1 /\ Len(v.ConditionalOperator) = 0
         THEN Result(reg, "error")
         ELSE LET built == BuildConditions(reg, v.Conditions)
              IN  IF \E i \in 1..Len(built) : built[i].Evaluator.kind = "panic"
                  THEN Result(reg, "panic")
                  ELSE AddVariantOp(reg, [v EXCEPT !.Conditions = built])

\* The second loop of Registry.LoadJSON, from the i-th variant of the document on.
RECURSIVE LoadVariants(_, _, _)
LoadVariants(reg, vs, i) ==
    IF i > Len(vs)
    THEN Result(reg, "nil")
    ELSE LET res == LoadVariant(reg, vs[i])
         IN  IF res.err # "nil" THEN res ELSE LoadVariants(res.reg, vs, i + 1)

\* LoadJSON with its two loops the other way round: the variants, then the flags.
LoadJSONVariantsFirst(reg, doc) ==
    LET res == LoadVariants(reg, doc.variants, 1)
    IN  IF res.err # "nil" THEN res ELSE LoadFlags(res.reg, doc.flag_defs, 1)

\* Registry.LoadJSON, on a decoded document.
LoadJSONOp(reg, doc) ==
    LET res == LoadFlags(reg, doc.flag_defs, 1)
    IN  IF res.err # "nil" THEN res ELSE LoadVariants(res.reg, doc.variants, 1)

\* MergeFlag without the delete: AddFlag finds the old flag and keeps it.
MergeFlagNoDelete(reg, flag) == AddFlagOp(reg, flag).reg

\* One turn of the first loop of Registry.mergeRegistry.
MergeFlag(reg, flag) ==
    AddFlagOp([reg EXCEPT !.flags = MapDelete(@, flag.Name)], flag).reg

\* One turn of the second loop of Registry.mergeRegistry.
MergeVariant(reg, variant) ==
    AddVariantOp([reg EXCEPT !.variants = MapDelete(@, variant.ID)], variant).reg

\* The first loop of Registry.mergeRegistry over the flags still to merge.
RECURSIVE MergeFlags(_, _)
MergeFlags(reg, todo) ==
    IF todo = {} THEN reg
    ELSE LET flag == CHOOSE x \in todo : TRUE
         IN  MergeFlags(MergeFlag(reg, flag), todo \ {flag})

\* The second loop of Registry.mergeRegistry over the variants still to merge.
RECURSIVE MergeVariants(_, _)
MergeVariants(reg, todo) ==
    IF todo = {} THEN reg
    ELSE LET variant == CHOOSE x \in todo : TRUE
         IN  MergeVariants(MergeVariant(reg, variant), todo \ {variant})

\* Registry.Flags and Registry.Variants: the values of the maps.
FlagsOf(reg) == {reg.flags[n] : n \in DOMAIN reg.flags}

VariantsOf(reg) == {reg.variants[id] : id \in DOMAIN reg.variants}

\* mergeRegistry with its two loops the other way round: the variants, then the flags.
mergeRegistryVariantsFirst(reg, registry) ==
    MergeFlags(MergeVariants(reg, VariantsOf(registry)), FlagsOf(registry))

\* Registry.mergeRegistry (it always returns nil).
mergeRegistry(reg, registry) ==
    MergeVariants(MergeFlags(reg, FlagsOf(registry)), VariantsOf(registry))

\* ReloadJSON without the return on error: what the new registry holds is merged.
ReloadJSONMergesOnError(reg, doc) ==
    LET res == LoadJSONOp(NewRegistry, doc)
    IN  Result(mergeRegistry(reg, res.reg), res.err)

\* Registry.ReloadJSON
ReloadJSONOp(reg, doc) ==
    LET res == LoadJSONOp(NewRegistry, doc)
    IN  IF res.err # "nil"
        THEN Result(reg, res.err)
        ELSE Result(mergeRegistry(reg, res.reg), "nil")

\* The sequences of the elements of set S, each once: the orders a range over a
\* map can take.
RECURSIVE Orders(_)
Orders(S) ==
    IF S = {} THEN {<<>>}
    ELSE UNION {{<<x>> \o o : o \in Orders(S \ {x})} : x \in S}

\* The variant ids indexed under name (none when the key is absent).
IndexedIDs(reg, name) ==
    IF name \in DOMAIN reg.flagToVariantIDMap THEN reg.flagToVariantIDMap[name] ELSE {}

\* r.variants[variantID]
VariantAt(reg, id) ==
    IF id \in DOMAIN reg.variants THEN reg.variants[id] ELSE ZeroVariant

\* r.flags[name].BaseValue
BaseValueAt(reg, name) ==
    IF name \in DOMAIN reg.flags THEN reg.flags[name].BaseValue ELSE NilV

\* The loop of Registry.FlagValueWithContext over the ids in the order given, from
\* the i-th on; active[id] is what variant id's Evaluate returned.
RECURSIVE FlagValueLoop(_, _, _, _, _, _)
FlagValueLoop(reg, name, order, active, i, val) ==
    IF i > Len(order) THEN val
    ELSE FlagValueLoop(reg, name, order, active, i + 1,
             IF active[order[i]]
             THEN VariantFlagValue(VariantAt(reg, order[i]), name)
             ELSE val)

\* The values Registry.FlagValueWithContext can return: over the orders of the
\* iteration and the values of the random source.
FlagValueResults(reg, name, context) ==
    LET ids == IndexedIDs(reg, name)
        outcomes == {a \in [ids -> BOOLEAN] :
                        \A id \in ids : a[id] \in EvaluateOutcomes(VariantAt(reg, id), context)}
    IN  {FlagValueLoop(reg, name, order, active, 1, BaseValueAt(reg, name)) :
            order \in Orders(ids), active \in outcomes}

-----------------------------------------------------------------------------
(* The inputs of the calls. *)

FlagNames == {"f", "g"}

VariantIDs == {"V", "W"}

\* The flags a caller registers.
FlagPool == {Flag(n, BoolV(b)) : n \in FlagNames, b \in BOOLEAN}

\* The flags a configuration document defines.
DocFlagPool == {Flag("f", BoolV(TRUE)), Flag("g", BoolV(FALSE))}

\* {"type": "MOD_RANGE", "values": ["user_id", 0, 9]}
CondLow ==
    Condition(conditionTypeModRange, NilV,
              <<StrV("user_id"), NumV(0), NumV(9 * RandScale)>>)

\* {"type": "RANDOM", "value": 1.0}
CondAlways == Condition(conditionTypeRandom, NumV(RandScale), <<>>)

\* The Mods lists of the variants.
ModLists ==
    {<<>>,
     <<Mod("f", BoolV(TRUE))>>,
     <<Mod("f", BoolV(FALSE)), Mod("g", BoolV(TRUE))>>}

\* The variants of the configuration documents. Variant V comes with each Mods
\* list, with no condition under AND or with one MOD_RANGE condition, and once with
\* two conditions and no operator; variant W has no condition and one Mod.
DocVariantPool ==
    {Variant("V", mods, conditionalOperatorAnd, <<>>) : mods \in ModLists}
    \cup {Variant("V", mods, "", <<CondLow>>) : mods \in ModLists}
    \cup {Variant("V", <<Mod("f", BoolV(TRUE))>>, "", <<CondLow, CondAlways>>),
          Variant("W", <<Mod("f", BoolV(FALSE))>>, conditionalOperatorAnd, <<>>)}

\* The variants lists of the documents: no variant, one variant, V and then W, and
\* the id V twice.
DocVariantLists ==
    {<<>>}
    \cup {<<v>> : v \in DocVariantPool}
    \cup {<<Variant("V", <<Mod("f", BoolV(TRUE))>>, "", <<CondLow>>),
            Variant("W", <<Mod("f", BoolV(FALSE))>>, conditionalOperatorAnd, <<>>)>>,
          <<Variant("V", <<Mod("f", BoolV(TRUE))>>, "", <<CondLow>>),
            Variant("V", <<Mod("f", BoolV(TRUE))>>, conditionalOperatorAnd, <<>>)>>}

\* The decoded configuration documents.
Docs ==
    {[flag_defs |-> fs, variants |-> vs] :
        fs \in SeqsUpTo(DocFlagPool, MaxDocFlags), vs \in DocVariantLists}

NoDoc == [flag_defs |-> <<>>, variants |-> <<>>]

\* The variants a caller hands to AddVariant: its conditions carry the evaluators
\* the built-in factories build.
VariantPool ==
    {[v EXCEPT !.Conditions = BuildConditions(NewRegistry, v.Conditions)] :
        v \in DocVariantPool}

Contexts ==
    {NilContext,
     IntMapContext([k \in {"user_id"} |-> 3]),
     IntMapContext([k \in {"user_id"} |-> 50])}

-----------------------------------------------------------------------------
(* The goroutines that call one Registry at the same time. *)

\* Goroutine "a" loads and reloads documents, "b" registers a flag, a variant or a
\* condition type; each makes one call.
Callers == {"a", "b"}

\* The goroutine that reads flag values, again and again.
Reader == "r"

Goroutines == Callers \cup {Reader}

\* The local variables of a call: the method called (op); its arguments (flag,
\* variant, doc, id); the flag and the variant at hand in a loop; the indices of
\* LoadJSON's loops over the flags (i), the variants (j) and the conditions (k); the
\* flags and the variants of the other registry that mergeRegistry has still to
\* merge; the error returned.
Frame(op, flag, variant, doc, id) ==
    [op |-> op, flag |-> flag, variant |-> variant, doc |-> doc, id |-> id,
     i |-> 0, j |-> 0, k |-> 0, todoFlags |-> {}, todoVariants |-> {}, err |-> "nil"]

NoFrame == Frame("", ZeroFlag, ZeroVariant, NoDoc, "")

\* sync.RWMutex, unlocked.
Unlocked == [writer |-> "none", readers |-> {}]

\* No goroutine has called yet.
NoGoroutines ==
    /\ mu = Unlocked
    /\ pc = [p \in Goroutines |-> "idle"]
    /\ frame = [p \in Callers |-> NoFrame]
    /\ pre = [p \in Callers |-> NewRegistry]
    /\ fatal = FALSE
    /\ defaultRegistryMu = Unlocked

-----------------------------------------------------------------------------
(* The calls on one Registry, one after the other. *)

\* The receiver r.
Receiver == RegistryOf(flags, variants, conditionSpecs, flagToVariantIDMap)

\* The receiver after the step.
ReceiverNext == RegistryOf(flags', variants', conditionSpecs', flagToVariantIDMap')

\* A call that returned: the method; the flag or the variant it was given; the
\* document a load or a reload was given, when it returned nil; the flag name and
\* the context a read was given; the error and the value it returned.
Call(op, flag, variant, doc, name, context, err, ret) ==
    [op |-> op, flag |-> flag, variant |-> variant, doc |-> doc, name |-> name,
     context |-> context, err |-> err, ret |-> ret]

\* The receiver becomes res.reg and the call returns.
Returns(res, call) ==
    /\ flags' = res.reg.flags
    /\ variants' = res.reg.variants
    /\ conditionSpecs' = res.reg.conditionSpecs
    /\ flagToVariantIDMap' = res.reg.flagToVariantIDMap
    /\ last' = call
    /\ UNCHANGED goroutines

Init ==
    /\ flags = NewRegistry.flags
    /\ variants = NewRegistry.variants
    /\ conditionSpecs = NewRegistry.conditionSpecs
    /\ flagToVariantIDMap = NewRegistry.flagToVariantIDMap
    /\ last = Call("NewRegistry", ZeroFlag, ZeroVariant, NoDoc, "", NilContext, "nil", NilV)
    /\ NoGoroutines

AddFlag(f) ==
    LET res == AddFlagOp(Receiver, f)
    IN  Returns(res, Call("AddFlag", f, ZeroVariant, NoDoc, "", NilContext, res.err, NilV))

AddVariant(v) ==
    LET res == AddVariantOp(Receiver, v)
    IN  Returns(res, Call("AddVariant", ZeroFlag, v, NoDoc, "", NilContext, res.err, NilV))

LoadJSON(doc) ==
    LET res == LoadJSONOp(Receiver, doc)
    IN  Returns(res, Call("LoadJSON", ZeroFlag, ZeroVariant,
                          IF res.err = "nil" THEN doc ELSE NoDoc,
                          "", NilContext, res.err, NilV))

ReloadJSON(doc) ==
    LET res == ReloadJSONOp(Receiver, doc)
    IN  Returns(res, Call("ReloadJSON", ZeroFlag, ZeroVariant,
                          IF res.err = "nil" THEN doc ELSE NoDoc,
                          "", NilContext, res.err, NilV))

\* A read that stores what it looks up: the zero Flag and an empty index set for a
\* name that is not registered.
FlagValueWithContextStoring(name, context) ==
    \E val \in FlagValueResults(Receiver, name, context) :
        Returns(Result(IF name \in DOMAIN flags
                       THEN Receiver
                       ELSE [Receiver EXCEPT !.flags = MapPut(@, name, ZeroFlag),
                                             !.flagToVariantIDMap = MapPut(@, name, {})],
                       "nil"),
                Call("FlagValueWithContext", ZeroFlag, ZeroVariant, NoDoc,
                     name, context, "nil", val))

\* Registry.FlagValueWithContext
FlagValueWithContext(name, context) ==
    \E val \in FlagValueResults(Receiver, name, context) :
        Returns(Result(Receiver, "nil"),
                Call("FlagValueWithContext", ZeroFlag, ZeroVariant, NoDoc,
                     name, context, "nil", val))

Next ==
    \/ \E f \in FlagPool : AddFlag(f)
    \/ \E v \in VariantPool : AddVariant(v)
    \/ \E doc \in Docs : LoadJSON(doc)
    \/ \E doc \in Docs : ReloadJSON(doc)
    \/ \E name \in FlagNames, context \in Contexts : FlagValueWithContext(name, context)

Spec == Init /\ [][Next]_vars

-----------------------------------------------------------------------------
(* The calls of the goroutines, step by step: a step is the taking of a lock, or   *)
(* what a goroutine does to the shared maps between two lock operations. A read    *)
(* is one step: the writes it can overlap, the deletes of mergeRegistry, are of    *)
(* single keys, and each lookup of the read comes before or after each of them.    *)

\* The documents the goroutines load and reload.
ConcDocs ==
    {[flag_defs |-> <<Flag("f", BoolV(TRUE))>>,
      variants |-> <<Variant("W", <<Mod("f", BoolV(FALSE))>>, conditionalOperatorAnd, <<>>)>>],
     [flag_defs |-> <<Flag("f", BoolV(TRUE)), Flag("g", BoolV(FALSE))>>,
      variants |-> <<Variant("V", <<Mod("f", BoolV(FALSE)), Mod("g", BoolV(TRUE))>>,
                             "", <<CondLow>>)>>],
     [flag_defs |-> <<Flag("f", BoolV(TRUE))>>,
      variants |-> <<Variant("V", <<>>, conditionalOperatorAnd, <<>>)>>]}

\* The registries the goroutines start on: a new one, and one that has loaded a
\* document.
SeedRegistries ==
    {NewRegistry,
     LoadJSONOp(NewRegistry,
        [flag_defs |-> <<Flag("f", BoolV(TRUE)), Flag("g", BoolV(FALSE))>>,
         variants |-> <<Variant("V", <<Mod("f", BoolV(FALSE)), Mod("g", BoolV(TRUE))>>,
                                conditionalOperatorAnd, <<>>)>>]).reg}

\* The calls each goroutine can make.
CallsOf(p) ==
    IF p = "a"
    THEN {Frame(op, ZeroFlag, ZeroVariant, doc, "") :
            op \in {"LoadJSON", "ReloadJSON"}, doc \in ConcDocs}
    ELSE {Frame("AddFlag", f, ZeroVariant, NoDoc, "") :
            f \in {Flag("f", BoolV(FALSE)), Flag("g", BoolV(TRUE))}}
         \cup {Frame("AddVariant", ZeroFlag, v, NoDoc, "") :
            v \in {Variant("W", <<Mod("f", BoolV(FALSE))>>, conditionalOperatorAnd, <<>>),
                   Variant("V", <<Mod("f", BoolV(FALSE)), Mod("g", BoolV(TRUE))>>,
                           conditionalOperatorAnd, <<>>)}}
         \cup {Frame("RegisterConditionType", ZeroFlag, ZeroVariant, NoDoc, id) :
            id \in {"custom", "random"}}

\* A position of a call: the label to go to and the local variables there.
At(label, fr) == [pc |-> label, fr |-> fr]

\* The call returns err.
Return(fr, err) == At("done", [fr EXCEPT !.err = err])

\* Registry.LoadJSON at the top of the loop over the conditions of fr.variant.
LoadCondition(fr) ==
    IF fr.k <= Len(fr.variant.Conditions)
    THEN At("Condition.Lock", fr)
    ELSE At("AddVariant.Lock", fr)

\* Registry.LoadJSON at the top of the loop over the variants of the document.
LoadNextVariant(fr) ==
    IF fr.j > Len(fr.doc.variants)
    THEN Return(fr, "nil")
    ELSE LET v == fr.doc.variants[fr.j]
         IN  IF Len(v.Mods) = 0
             THEN Return(fr, "error")
             ELSE IF Len(v.Conditions) > 1 /\ Len(v.ConditionalOperator) = 0
                  THEN Return(fr, "error")
                  ELSE LoadCondition([fr EXCEPT !.variant = v, !.k = 1])

\* Registry.LoadJSON at the top of the loop over the flags of the document.
LoadNextFlag(fr) ==
    IF fr.i <= Len(fr.doc.flag_defs)
    THEN At("AddFlag.Lock", [fr EXCEPT !.flag = fr.doc.flag_defs[fr.i]])
    ELSE LoadNextVariant([fr EXCEPT !.j = 1])

\* Registry.mergeRegistry at the top of its loops.
MergeNext(fr) ==
    IF fr.todoFlags # {} THEN At("mergeRegistry.deleteFlag", fr)
    ELSE IF fr.todoVariants # {} THEN At("mergeRegistry.deleteVariant", fr)
    ELSE Return(fr, "nil")

\* Registry.ReloadJSON up to the call of mergeRegistry: the document is loaded into
\* a new registry, which no other goroutine sees.
ReloadBegin(fr) ==
    LET res == LoadJSONOp(NewRegistry, fr.doc)
    IN  IF res.err # "nil"
        THEN Return(fr, res.err)
        ELSE MergeNext([fr EXCEPT !.todoFlags = FlagsOf(res.reg),
                                  !.todoVariants = VariantsOf(res.reg)])

\* Where a call begins.
Entry(fr) ==
    CASE fr.op = "AddFlag" -> At("AddFlag.Lock", fr)
      [] fr.op = "AddVariant" -> At("AddVariant.Lock", fr)
      [] fr.op = "RegisterConditionType" -> At("RegisterConditionType.Lock", fr)
      [] fr.op = "LoadJSON" -> LoadNextFlag([fr EXCEPT !.i = 1])
      [] fr.op = "ReloadJSON" -> ReloadBegin(fr)

\* Where the caller of r.AddFlag goes on when it returned err.
AfterAddFlag(fr, err) ==
    CASE fr.op = "AddFlag" -> Return(fr, err)
      [] fr.op = "LoadJSON" ->
            IF err # "nil" THEN Return(fr, err) ELSE LoadNextFlag([fr EXCEPT !.i = @ + 1])
      [] fr.op = "ReloadJSON" -> MergeNext(fr)

\* Where the caller of r.AddVariant goes on when it returned err.
AfterAddVariant(fr, err) ==
    CASE fr.op = "AddVariant" -> Return(fr, err)
      [] fr.op = "LoadJSON" ->
            IF err # "nil" THEN Return(fr, err) ELSE LoadNextVariant([fr EXCEPT !.j = @ + 1])
      [] fr.op = "ReloadJSON" -> MergeNext(fr)

\* Goroutine p goes to position at.
Goto(p, at) ==
    /\ pc' = [pc EXCEPT ![p] = at.pc]
    /\ frame' = [frame EXCEPT ![p] = at.fr]

\* The receiver becomes reg.
Store(reg) ==
    /\ flags' = reg.flags
    /\ variants' = reg.variants
    /\ conditionSpecs' = reg.conditionSpecs
    /\ flagToVariantIDMap' = reg.flagToVariantIDMap

\* Goroutine p makes call c.
Begin(p, c) ==
    /\ ~fatal
    /\ pc[p] = "idle"
    /\ Goto(p, Entry(c))
    /\ pre' = [pre EXCEPT ![p] = Receiver]
    /\ UNCHANGED <<flags, variants, conditionSpecs, flagToVariantIDMap, last, mu, fatal>>
    /\ UNCHANGED defaultRegistryMu

\* r.Lock()
Lock(p) ==
    /\ ~fatal
    /\ pc[p] \in {"AddFlag.Lock", "AddVariant.Lock", "RegisterConditionType.Lock",
                  "Condition.Lock"}
    /\ mu = Unlocked
    /\ mu' = [mu EXCEPT !.writer = p]
    /\ pc' = [pc EXCEPT ![p] =
                CASE pc[p] = "AddFlag.Lock" -> "AddFlag"
                  [] pc[p] = "AddVariant.Lock" -> "AddVariant"
                  [] pc[p] = "RegisterConditionType.Lock" -> "RegisterConditionType"
                  [] pc[p] = "Condition.Lock" -> "Condition"]
    /\ UNCHANGED <<flags, variants, conditionSpecs, flagToVariantIDMap, last, frame, pre, fatal>>
    /\ UNCHANGED defaultRegistryMu

\* r.Unlock()
Unlock(p) == mu' = [mu EXCEPT !.writer = "none"]

\* The body of Registry.AddFlag, and the deferred r.Unlock().
AddFlagBody(p) ==
    /\ ~fatal
    /\ pc[p] = "AddFlag"
    /\ LET res == AddFlagOp(Receiver, frame[p].flag)
       IN  /\ Store(res.reg)
           /\ Goto(p, AfterAddFlag(frame[p], res.err))
    /\ Unlock(p)
    /\ UNCHANGED <<last, pre, fatal, defaultRegistryMu>>

\* The body of Registry.AddVariant, and the deferred r.Unlock().
AddVariantBody(p) ==
    /\ ~fatal
    /\ pc[p] = "AddVariant"
    /\ LET res == AddVariantOp(Receiver, frame[p].variant)
       IN  /\ Store(res.reg)
           /\ Goto(p, AfterAddVariant(frame[p], res.err))
    /\ Unlock(p)
    /\ UNCHANGED <<last, pre, fatal, defaultRegistryMu>>

\* The body of Registry.RegisterConditionType, and the deferred r.Unlock().
RegisterConditionTypeBody(p) ==
    /\ ~fatal
    /\ pc[p] = "RegisterConditionType"
    /\ LET res == RegisterConditionTypeOp(Receiver, frame[p].id, "modRangeSpec")
       IN  /\ Store(res.reg)
           /\ Goto(p, Return(frame[p], res.err))
    /\ Unlock(p)
    /\ UNCHANGED <<last, pre, fatal, defaultRegistryMu>>

\* Registry.LoadJSON between r.Lock() and r.Unlock(): the evaluator of condition k
\* is built. A factory that panics leaves the lock held.
ConditionBody(p) ==
    /\ ~fatal
    /\ pc[p] = "Condition"
    /\ LET fr == frame[p]
           c == BuildCondition(Receiver, fr.variant.Conditions[fr.k])
       IN  IF c.Evaluator.kind = "panic"
           THEN /\ Goto(p, At("panicked", [fr EXCEPT !.err = "panic"]))
                /\ UNCHANGED mu
           ELSE /\ Goto(p, LoadCondition([fr EXCEPT !.variant.Conditions[fr.k] = c,
                                                    !.k = @ + 1]))
                /\ Unlock(p)
    /\ UNCHANGED <<flags, variants, conditionSpecs, flagToVariantIDMap, last, pre, fatal>>
    /\ UNCHANGED defaultRegistryMu

\* Another goroutine is between the taking and the release of r's lock.
LockHeldByOther(p) == mu.writer \notin {"none", p} \/ mu.readers \ {p} # {}

\* What an access to a map with no lock held can do: what it does when it is alone,
\* or, when another goroutine holds the lock, the runtime's fatal error.
Unsynchronized(p, alone) ==
    \/ alone /\ UNCHANGED fatal
    \/ /\ LockHeldByOther(p)
       /\ fatal' = TRUE
       /\ UNCHANGED <<flags, variants, pc, frame>>

\* Registry.mergeRegistry: delete(r.flags, flag.Name), with no lock held.
MergeDeleteFlag(p) ==
    /\ ~fatal
    /\ pc[p] = "mergeRegistry.deleteFlag"
    /\ \E flag \in frame[p].todoFlags :
        Unsynchronized(p,
            /\ flags' = MapDelete(flags, flag.Name)
            /\ Goto(p, At("AddFlag.Lock", [frame[p] EXCEPT !.flag = flag,
                                                           !.todoFlags = @ \ {flag}]))
            /\ UNCHANGED variants)
    /\ UNCHANGED <<conditionSpecs, flagToVariantIDMap, last, mu, pre, defaultRegistryMu>>

\* Registry.mergeRegistry: delete(r.variants, variant.ID), with no lock held.
MergeDeleteVariant(p) ==
    /\ ~fatal
    /\ pc[p] = "mergeRegistry.deleteVariant"
    /\ \E variant \in frame[p].todoVariants :
        Unsynchronized(p,
            /\ variants' = MapDelete(variants, variant.ID)
            /\ Goto(p, At("AddVariant.Lock", [frame[p] EXCEPT !.variant = variant,
                                                              !.todoVariants = @ \ {variant}]))
            /\ UNCHANGED flags)
    /\ UNCHANGED <<conditionSpecs, flagToVariantIDMap, last, mu, pre, defaultRegistryMu>>

\* Registry.FlagValueWithContext: r.RLock()
RLock ==
    /\ ~fatal
    /\ pc[Reader] = "idle"
    /\ mu.writer = "none"
    /\ mu' = [mu EXCEPT !.readers = @ \cup {Reader}]
    /\ pc' = [pc EXCEPT ![Reader] = "FlagValueWithContext"]
    /\ UNCHANGED <<flags, variants, conditionSpecs, flagToVariantIDMap, last, frame, pre, fatal>>
    /\ UNCHANGED defaultRegistryMu

\* The body of Registry.FlagValueWithContext, and the deferred r.RUnlock().
Read(name, context) ==
    /\ ~fatal
    /\ pc[Reader] = "FlagValueWithContext"
    /\ \E val \in FlagValueResults(Receiver, name, context) :
        last' = Call("FlagValueWithContext", ZeroFlag, ZeroVariant, NoDoc,
                     name, context, "nil", val)
    /\ mu' = [mu EXCEPT !.readers = @ \ {Reader}]
    /\ pc' = [pc EXCEPT ![Reader] = "idle"]
    /\ UNCHANGED <<flags, variants, conditionSpecs, flagToVariantIDMap, frame, pre, fatal>>
    /\ UNCHANGED defaultRegistryMu

InitConc ==
    /\ \E reg \in SeedRegistries :
        /\ flags = reg.flags
        /\ variants = reg.variants
        /\ conditionSpecs = reg.conditionSpecs
        /\ flagToVariantIDMap = reg.flagToVariantIDMap
    /\ last = Call("NewRegistry", ZeroFlag, ZeroVariant, NoDoc, "", NilContext, "nil", NilV)
    /\ NoGoroutines

NextConc ==
    \/ \E p \in Callers : \E c \in CallsOf(p) : Begin(p, c)
    \/ \E p \in Callers : Lock(p)
    \/ \E p \in Callers : AddFlagBody(p)
    \/ \E p \in Callers : AddVariantBody(p)
    \/ \E p \in Callers : RegisterConditionTypeBody(p)
    \/ \E p \in Callers : ConditionBody(p)
    \/ \E p \in Callers : MergeDeleteFlag(p)
    \/ \E p \in Callers : MergeDeleteVariant(p)
    \/ RLock
    \/ \E name \in FlagNames, context \in Contexts : Read(name, context)

SpecConc == InitConc /\ [][NextConc]_vars

-----------------------------------------------------------------------------
(* The Node.js implementation's flag evaluation, which takes a map of forced       *)
(* variants: getFlagValue of variants.js, Variant.prototype.evaluate and           *)
(* Variant.prototype.getFlagValue of variant.js. Its registry holds the same maps  *)
(* (flags, variants, flagToVariantIdsMap); its conditions are closures.            *)

\* What a call that throws gives.
Thrown == [t |-> "Error", n |-> 0, s |-> ""]

\* The closure of the RANDOM condition type; rnd is what Math.random() returns.
JsRandomFn(e, rnd) == IF e.v = 0 THEN FALSE ELSE rnd <= e.v

\* The closure of the MOD_RANGE condition type; getFlagValue calls it with {} for
\* a context that was not given.
JsModRangeFn(e, context) ==
    IF e.key \notin DOMAIN context.m
    THEN FALSE
    ELSE LET mod == GoRem(context.m[e.key], 100)
         IN  mod >= e.rangeBegin /\ mod <= e.rangeEnd

\* Condition.prototype.evaluate
JsConditionEvaluate(c, context, rnd) ==
    IF c.Evaluator.kind = "random"
    THEN JsRandomFn(c.Evaluator, rnd)
    ELSE JsModRangeFn(c.Evaluator, context)

\* Variant.prototype.evaluate: true or false as a value, or Thrown.
JsVariantEvaluate(v, context, rnds) ==
    IF v.ConditionalOperator = conditionalOperatorOr
    THEN BoolV(\E i \in 1..Len(v.Conditions) :
                    JsConditionEvaluate(v.Conditions[i], context, rnds[i]))
    ELSE IF Len(v.Conditions) <= 1 \/ v.ConditionalOperator = conditionalOperatorAnd
         THEN BoolV(\A i \in 1..Len(v.Conditions) :
                        JsConditionEvaluate(v.Conditions[i], context, rnds[i]))
         ELSE Thrown

\* What Variant.prototype.evaluate can give, over the values of the random source.
JsEvaluateOutcomes(v, context) ==
    {JsVariantEvaluate(v, context, rnds) : rnds \in [1..Len(v.Conditions) -> RandSamples]}

\* Variant.prototype.getFlagValue: the value of the first Mod for flagName; it
\* throws when there is none.
JsVariantGetFlagValue(v, flagName) ==
    IF \E i \in 1..Len(v.Mods) : v.Mods[i].FlagName = flagName
    THEN ModScan(v.Mods, flagName, 1)
    ELSE Thrown

\* forced[id] === true, forced[id] === false
ForcedOn(forced, id) == id \in DOMAIN forced /\ forced[id]

ForcedOff(forced, id) == id \in DOMAIN forced /\ ~forced[id]

\* The loop of getFlagValue without the forced map: every variant is evaluated.
RECURSIVE GetFlagValueLoopUnforced(_, _, _, _, _, _, _)
GetFlagValueLoopUnforced(reg, flagName, order, evaluated, forced, i, value) ==
    IF i > Len(order) THEN value
    ELSE LET id == order[i]
         IN  IF id \notin DOMAIN reg.variants \/ evaluated[id] = Thrown
             THEN Thrown
             ELSE IF evaluated[id] = BoolV(TRUE)
                  THEN LET x == JsVariantGetFlagValue(reg.variants[id], flagName)
                       IN  IF x = Thrown THEN Thrown
                           ELSE GetFlagValueLoopUnforced(reg, flagName, order, evaluated,
                                                         forced, i + 1, x)
                  ELSE GetFlagValueLoopUnforced(reg, flagName, order, evaluated,
                                                forced, i + 1, value)

\* The loop of getFlagValue over the ids in the order given, from the i-th on;
\* evaluated[id] is what variant id's evaluate gives when it is called.
RECURSIVE GetFlagValueLoop(_, _, _, _, _, _, _)
GetFlagValueLoop(reg, flagName, order, evaluated, forced, i, value) ==
    IF i > Len(order) THEN value
    ELSE LET id == order[i]
         IN  IF id \notin DOMAIN reg.variants
             THEN Thrown
             ELSE IF ForcedOff(forced, id)
                  THEN GetFlagValueLoop(reg, flagName, order, evaluated, forced, i + 1, value)
                  ELSE IF ~ForcedOn(forced, id) /\ evaluated[id] = Thrown
                       THEN Thrown
                       ELSE IF ForcedOn(forced, id) \/ evaluated[id] = BoolV(TRUE)
                            THEN LET x == JsVariantGetFlagValue(reg.variants[id], flagName)
                                 IN  IF x = Thrown THEN Thrown
                                     ELSE GetFlagValueLoop(reg, flagName, order, evaluated,
                                                           forced, i + 1, x)
                            ELSE GetFlagValueLoop(reg, flagName, order, evaluated,
                                                  forced, i + 1, value)

\* The values getFlagValue(flagName, context, opt_forced) can return, over the
\* orders of the iteration and the values of the random source.
getFlagValue(reg, flagName, context, forced) ==
    IF flagName \notin DOMAIN reg.flagToVariantIDMap
    THEN {Thrown}
    ELSE LET ids == reg.flagToVariantIDMap[flagName]
             ctx == IF context.kind = "nil" THEN IntMapContext(EmptyMap) ELSE context
             outcomes == {a \in [ids -> {BoolV(TRUE), BoolV(FALSE), Thrown}] :
                            \A id \in ids \cap DOMAIN reg.variants :
                                a[id] \in JsEvaluateOutcomes(reg.variants[id], ctx)}
         IN  {GetFlagValueLoop(reg, flagName, order, evaluated, forced, 1,
                               BaseValueAt(reg, flagName)) :
                order \in Orders(ids), evaluated \in outcomes}

-----------------------------------------------------------------------------
(* The evaluation of conditions, variants and flags on a registry that a document  *)
(* was loaded into. *)

\* {"type": "RANDOM", "value": 0.0}
CondNever == Condition(conditionTypeRandom, NumV(0), <<>>)

\* {"type": "MOD_RANGE", "values": ["user_id", 10, 50]}
CondMid ==
    Condition(conditionTypeModRange, NilV,
              <<StrV("user_id"), NumV(10 * RandScale), NumV(50 * RandScale)>>)

\* A MOD_RANGE whose bounds have a fraction: 1/RandScale and 9 + 1/RandScale.
CondFraction ==
    Condition(conditionTypeModRange, NilV,
              <<StrV("user_id"), NumV(1), NumV(9 * RandScale + 1)>>)

\* {"type": "MOD_RANGE", "values": ["user_id", 9, 0]}: the factory returns nil.
CondInverted ==
    Condition(conditionTypeModRange, NilV,
              <<StrV("user_id"), NumV(9 * RandScale), NumV(0)>>)

\* A condition of a type that is not registered: it keeps the nil Evaluator.
CondUnknown == Condition("USER_ID", NilV, <<StrV("somebody")>>)

\* The conditions of the variants evaluated, as LoadJSON builds them.
EvalConditions ==
    {BuildCondition(NewRegistry, c) : c \in {CondLow, CondAlways, CondNever, CondUnknown}}

\* The MOD_RANGE conditions evaluated, as LoadJSON builds them.
RangeConditions ==
    {BuildCondition(NewRegistry, c) : c \in {CondLow, CondMid, CondFraction, CondInverted}}

\* The longest Conditions list of a variant evaluated.
MaxConditions == 2

\* The conditional operators: none, the two constants, and a string that is
\* neither of them.
EvalOperators == {"", conditionalOperatorAnd, conditionalOperatorOr, "and"}

\* The variants evaluated: every operator with every list of conditions.
EvalVariants ==
    {Variant("V", <<Mod("f", BoolV(FALSE))>>, op, cs) :
        op \in EvalOperators, cs \in SeqsUpTo(EvalConditions, MaxConditions)}

\* The contexts: nil, a map without the key, and maps that give "user_id", below
\* zero too.
EvalContexts ==
    {NilContext, IntMapContext([k \in {"group"} |-> 5])}
    \cup {IntMapContext([k \in {"user_id"} |-> n]) :
            n \in {-100, -97, 0, 3, 9, 10, 50, 51, 99, 100, 109, 110}}

\* The documents loaded: the test data of TestRandom (a variant that always passes
\* and one that always fails), and two variants with a Mod for the same flag.
EvalDocs ==
    {[flag_defs |-> <<Flag("f", BoolV(TRUE)), Flag("g", BoolV(FALSE))>>,
      variants |-> <<Variant("V", <<Mod("f", BoolV(FALSE))>>, "", <<CondAlways>>),
                     Variant("W", <<Mod("g", BoolV(TRUE))>>, "", <<CondNever>>)>>],
     [flag_defs |-> <<Flag("f", BoolV(TRUE)), Flag("g", BoolV(FALSE))>>,
      variants |-> <<Variant("V", <<Mod("f", BoolV(FALSE)), Mod("g", BoolV(TRUE))>>,
                             "", <<CondLow>>),
                     Variant("W", <<Mod("f", StrV("w"))>>, conditionalOperatorOr,
                             <<CondMid, CondNever>>)>>]}

\* The maps of forced variants: variant id -> true or false.
ForcedMaps == UNION {[ids -> BOOLEAN] : ids \in SUBSET VariantIDs}

\* A call of one of the evaluating functions that returned: the function, the
\* variant or the condition it was called on, the flag name, the context and the
\* forced map it was given, what the random source returned to each condition, and
\* the value returned.
Applied(op, variant, condition, name, context, forced, rnds, ret) ==
    [op |-> op, variant |-> variant, condition |-> condition, name |-> name,
     context |-> context, forced |-> forced, rnds |-> rnds, ret |-> ret]

\* No call was made yet on the loaded registry.
NotYetCalled == last.op = "NewRegistry"

\* The call returns and leaves the registry as it is.
Evaluated(call) ==
    /\ last' = call
    /\ UNCHANGED <<flags, variants, conditionSpecs, flagToVariantIDMap>>
    /\ UNCHANGED goroutines

\* Condition.Evaluate on a condition as LoadJSON builds it.
ConditionEvaluateCall(c, context) ==
    /\ NotYetCalled
    /\ \E rnd \in RandSamples :
        Evaluated(Applied("Condition.Evaluate", ZeroVariant, c, "", context, EmptyMap,
                          <<rnd>>, BoolV(ConditionEvaluate(c, context, rnd))))

\* Variant.Evaluate
VariantEvaluateCall(v, context) ==
    /\ NotYetCalled
    /\ \E rnds \in [1..Len(v.Conditions) -> RandSamples] :
        Evaluated(Applied("Variant.Evaluate", v, NoEvaluator, "", context, EmptyMap, rnds,
                          BoolV(VariantEvaluate(v, context, rnds))))

\* Variant.FlagValue
VariantFlagValueCall(v, name) ==
    /\ NotYetCalled
    /\ Evaluated(Applied("Variant.FlagValue", v, NoEvaluator, name, NilContext, EmptyMap,
                         <<>>, VariantFlagValue(v, name)))

\* Registry.FlagValueWithContext
FlagValueCall(name, context) ==
    /\ NotYetCalled
    /\ \E val \in FlagValueResults(Receiver, name, context) :
        Evaluated(Applied("FlagValueWithContext", ZeroVariant, NoEvaluator, name, context,
                          EmptyMap, <<>>, val))

\* getFlagValue of the Node.js implementation.
GetFlagValueCall(flagName, context, forced) ==
    /\ NotYetCalled
    /\ \E value \in getFlagValue(Receiver, flagName, context, forced) :
        Evaluated(Applied("getFlagValue", ZeroVariant, NoEvaluator, flagName, context,
                          forced, <<>>, value))

InitEval ==
    /\ \E doc \in EvalDocs :
        LET reg == LoadJSONOp(NewRegistry, doc).reg
        IN  /\ flags = reg.flags
            /\ variants = reg.variants
            /\ conditionSpecs = reg.conditionSpecs
            /\ flagToVariantIDMap = reg.flagToVariantIDMap
    /\ last = Call("NewRegistry", ZeroFlag, ZeroVariant, NoDoc, "", NilContext, "nil", NilV)
    /\ NoGoroutines

NextEval ==
    \/ \E c \in RangeConditions \cup EvalConditions, context \in EvalContexts :
            ConditionEvaluateCall(c, context)
    \/ \E v \in EvalVariants, context \in EvalContexts : VariantEvaluateCall(v, context)
    \/ \E v \in VariantPool, name \in FlagNames : VariantFlagValueCall(v, name)
    \/ \E name \in FlagNames, context \in EvalContexts : FlagValueCall(name, context)
    \/ \E name \in FlagNames, context \in EvalContexts, forced \in ForcedMaps :
            GetFlagValueCall(name, context, forced)

SpecEval == InitEval /\ [][NextEval]_vars

-----------------------------------------------------------------------------
(* The registering of condition types and the loading of documents whose           *)
(* conditions name them. *)

\* {"type": "CUSTOM", "value": 1.0}
CondCustom == Condition("CUSTOM", NumV(RandScale), <<>>)

\* {"type": "random", "value": 1.0}
CondLowerCase == Condition("random", NumV(RandScale), <<>>)

\* {"type": "RANDOM", "value": "foo"}: the factory returns nil.
CondNotANumber == Condition(conditionTypeRandom, StrV("foo"), <<>>)

\* {"type": "RANDOM", "value": 2.0}: the factory returns nil.
CondTooLikely == Condition(conditionTypeRandom, NumV(2 * RandScale), <<>>)

\* {"type": "MOD_RANGE", "values": ["user_id", 0]}: the factory returns nil.
CondTwoValues ==
    Condition(conditionTypeModRange, NilV, <<StrV("user_id"), NumV(0)>>)

\* {"type": "RANDOM", "value": 1.0, "values": [0.0]}
CondBoth == Condition(conditionTypeRandom, NumV(RandScale), <<NumV(0)>>)

\* The conditions of the documents loaded.
LoadConditions ==
    {CondAlways, CondLow, CondUnknown, CondCustom, CondLowerCase, CondNotANumber,
     CondTooLikely, CondTwoValues, CondInverted, CondBoth}

\* The documents loaded: flag f and variant V with one of the conditions, or with a
\* RANDOM condition and one of them under AND.
LoadDocs ==
    {[flag_defs |-> <<Flag("f", BoolV(TRUE))>>,
      variants |-> <<Variant("V", <<Mod("f", BoolV(FALSE))>>, "", <<c>>)>>] :
        c \in LoadConditions}
    \cup {[flag_defs |-> <<Flag("f", BoolV(TRUE))>>,
           variants |-> <<Variant("V", <<Mod("f", BoolV(FALSE))>>, conditionalOperatorAnd,
                                  <<CondAlways, c>>)>>] :
            c \in {CondLow, CondUnknown, CondLowerCase}}

\* The ids condition types are registered under.
TypeIDs == {"custom", "CUSTOM", "random", "Random", "MOD_RANGE"}

\* The factories registered: the built-in ones.
Factories == {"randomSpec", "modRangeSpec"}

\* Registry.RegisterConditionType as a call; the id is recorded as the name.
RegisterConditionType(id, fn) ==
    LET res == RegisterConditionTypeOp(Receiver, id, fn)
    IN  Returns(res, Call("RegisterConditionType", ZeroFlag, ZeroVariant, NoDoc, id,
                          NilContext, res.err, NilV))

NextLoad ==
    \/ \E id \in TypeIDs, fn \in Factories : RegisterConditionType(id, fn)
    \/ \E doc \in LoadDocs : LoadJSON(doc)
    \/ \E context \in Contexts : FlagValueWithContext("f", context)

SpecLoad == Init /\ [][NextLoad]_vars

-----------------------------------------------------------------------------
(* Two goroutines that each load a document into one new Registry. *)

\* The documents loaded: the same two flags in the two orders, each with a variant
\* of its own.
TwoLoadDocs ==
    {[flag_defs |-> <<Flag("f", BoolV(TRUE)), Flag("g", BoolV(FALSE))>>,
      variants |-> <<Variant("V", <<Mod("f", BoolV(FALSE))>>, "", <<CondLow>>)>>],
     [flag_defs |-> <<Flag("g", BoolV(FALSE)), Flag("f", BoolV(TRUE))>>,
      variants |-> <<Variant("W", <<Mod("g", BoolV(TRUE))>>, conditionalOperatorAnd, <<>>)>>]}

NextTwoLoads ==
    \/ \E p \in Callers, doc \in TwoLoadDocs :
            Begin(p, Frame("LoadJSON", ZeroFlag, ZeroVariant, doc, ""))
    \/ \E p \in Callers : Lock(p)
    \/ \E p \in Callers : AddFlagBody(p)
    \/ \E p \in Callers : AddVariantBody(p)
    \/ \E p \in Callers : ConditionBody(p)

SpecTwoLoads == Init /\ [][NextTwoLoads]_vars

-----------------------------------------------------------------------------
(* The functions of the package: each takes the read lock of defaultRegistryMu,    *)
(* calls the method of the same name on the DefaultRegistry and gives the lock     *)
(* back when it returns; Reset puts a new Registry in the place of the             *)
(* DefaultRegistry under the write lock. The four maps are those of the registry   *)
(* that DefaultRegistry points to, and mu is its mutex.                            *)

\* The documents loaded and reloaded through the package: one that loads, and one
\* whose condition, {"type": "MOD_RANGE", "values": [1, 2, 3]}, makes the MOD_RANGE
\* factory panic at values[0].(string).
DefaultDocs ==
    {[flag_defs |-> <<Flag("f", BoolV(TRUE))>>,
      variants |-> <<Variant("W", <<Mod("f", BoolV(FALSE))>>, "", <<CondLow>>)>>],
     [flag_defs |-> <<>>,
      variants |-> <<Variant("V", <<Mod("f", BoolV(FALSE))>>, "",
                             <<Condition(conditionTypeModRange, NilV,
                                         <<NumV(RandScale), NumV(2 * RandScale),
                                           NumV(3 * RandScale)>>)>>)>>]}

\* The calls each goroutine can make through the package, Reset aside.
DefaultCallsOf(p) ==
    IF p = "a"
    THEN {Frame(op, ZeroFlag, ZeroVariant, doc, "") :
            op \in {"LoadJSON", "ReloadJSON"}, doc \in DefaultDocs}
    ELSE {Frame("AddFlag", Flag("f", BoolV(FALSE)), ZeroVariant, NoDoc, ""),
          Frame("AddVariant", ZeroFlag,
                Variant("W", <<Mod("f", BoolV(FALSE))>>, conditionalOperatorAnd, <<>>),
                NoDoc, ""),
          Frame("RegisterConditionType", ZeroFlag, ZeroVariant, NoDoc, "custom")}

\* AddFlag, AddVariant, RegisterConditionType, LoadJSON, ReloadJSON of the package:
\* defaultRegistryMu.RLock(), and the call of the method on the DefaultRegistry.
DefaultBegin(p, c) ==
    /\ ~fatal
    /\ pc[p] = "idle"
    /\ defaultRegistryMu.writer = "none"
    /\ defaultRegistryMu' = [defaultRegistryMu EXCEPT !.readers = @ \cup {p}]
    /\ Goto(p, Entry(c))
    /\ pre' = [pre EXCEPT ![p] = Receiver]
    /\ UNCHANGED <<flags, variants, conditionSpecs, flagToVariantIDMap, last, mu, fatal>>

\* FlagValueWithContext of the package: defaultRegistryMu.RLock().
DefaultReadBegin ==
    /\ ~fatal
    /\ pc[Reader] = "idle"
    /\ defaultRegistryMu.writer = "none"
    /\ defaultRegistryMu' = [defaultRegistryMu EXCEPT !.readers = @ \cup {Reader}]
    /\ pc' = [pc EXCEPT ![Reader] = "FlagValueWithContext.RLock"]
    /\ UNCHANGED <<flags, variants, conditionSpecs, flagToVariantIDMap, last, mu, frame, pre,
                   fatal>>

\* DefaultRegistry.FlagValueWithContext: r.RLock()
DefaultReadRLock ==
    /\ ~fatal
    /\ pc[Reader] = "FlagValueWithContext.RLock"
    /\ mu.writer = "none"
    /\ mu' = [mu EXCEPT !.readers = @ \cup {Reader}]
    /\ pc' = [pc EXCEPT ![Reader] = "FlagValueWithContext"]
    /\ UNCHANGED <<flags, variants, conditionSpecs, flagToVariantIDMap, last, frame, pre, fatal,
                   defaultRegistryMu>>

\* The body of DefaultRegistry.FlagValueWithContext, and the deferred r.RUnlock().
DefaultRead(name, context) ==
    /\ ~fatal
    /\ pc[Reader] = "FlagValueWithContext"
    /\ \E val \in FlagValueResults(Receiver, name, context) :
        last' = Call("FlagValueWithContext", ZeroFlag, ZeroVariant, NoDoc,
                     name, context, "nil", val)
    /\ mu' = [mu EXCEPT !.readers = @ \ {Reader}]
    /\ pc' = [pc EXCEPT ![Reader] = "done"]
    /\ UNCHANGED <<flags, variants, conditionSpecs, flagToVariantIDMap, frame, pre, fatal,
                   defaultRegistryMu>>

\* The deferred defaultRegistryMu.RUnlock() of a function of the package, when the
\* method has returned or has panicked.
DefaultReturn(p) ==
    /\ ~fatal
    /\ pc[p] \in {"done", "panicked"}
    /\ p \in defaultRegistryMu.readers
    /\ defaultRegistryMu' = [defaultRegistryMu EXCEPT !.readers = @ \ {p}]
    /\ pc' = [pc EXCEPT ![p] = "returned"]
    /\ UNCHANGED <<flags, variants, conditionSpecs, flagToVariantIDMap, last, mu, frame, pre,
                   fatal>>

\* Reset with a Lock that does not wait for the read locks to be given back.
ResetLockNoWait(p) ==
    /\ ~fatal
    /\ pc[p] = "idle"
    /\ defaultRegistryMu.writer = "none"
    /\ defaultRegistryMu' = [defaultRegistryMu EXCEPT !.writer = p]
    /\ pc' = [pc EXCEPT ![p] = "Reset"]
    /\ frame' = [frame EXCEPT ![p] = Frame("Reset", ZeroFlag, ZeroVariant, NoDoc, "")]
    /\ UNCHANGED <<flags, variants, conditionSpecs, flagToVariantIDMap, last, mu, pre, fatal>>

\* Reset: defaultRegistryMu.Lock()
ResetLock(p) ==
    /\ ~fatal
    /\ pc[p] = "idle"
    /\ defaultRegistryMu = Unlocked
    /\ defaultRegistryMu' = [defaultRegistryMu EXCEPT !.writer = p]
    /\ pc' = [pc EXCEPT ![p] = "Reset"]
    /\ frame' = [frame EXCEPT ![p] = Frame("Reset", ZeroFlag, ZeroVariant, NoDoc, "")]
    /\ UNCHANGED <<flags, variants, conditionSpecs, flagToVariantIDMap, last, mu, pre, fatal>>

\* Reset: DefaultRegistry = NewRegistry(), and defaultRegistryMu.Unlock(). The new
\* registry comes with a mutex of its own, unlocked; pre keeps the registry that
\* was the DefaultRegistry.
ResetBody(p) ==
    /\ ~fatal
    /\ pc[p] = "Reset"
    /\ Store(NewRegistry)
    /\ mu' = Unlocked
    /\ defaultRegistryMu' = [defaultRegistryMu EXCEPT !.writer = "none"]
    /\ pc' = [pc EXCEPT ![p] = "returned"]
    /\ pre' = [pre EXCEPT ![p] = Receiver]
    /\ UNCHANGED <<last, frame, fatal>>

NextDefault ==
    \/ \E p \in Callers : \E c \in DefaultCallsOf(p) : DefaultBegin(p, c)
    \/ \E p \in Callers : ResetLock(p)
    \/ \E p \in Callers : ResetBody(p)
    \/ \E p \in Callers : Lock(p)
    \/ \E p \in Callers : AddFlagBody(p)
    \/ \E p \in Callers : AddVariantBody(p)
    \/ \E p \in Callers : RegisterConditionTypeBody(p)
    \/ \E p \in Callers : ConditionBody(p)
    \/ \E p \in Callers : MergeDeleteFlag(p)
    \/ \E p \in Callers : MergeDeleteVariant(p)
    \/ DefaultReadBegin
    \/ DefaultReadRLock
    \/ \E name \in FlagNames, context \in Contexts : DefaultRead(name, context)
    \/ \E p \in Goroutines : DefaultReturn(p)

SpecDefault == InitConc /\ [][NextDefault]_vars

\* The scheduler runs every goroutine that can take a step, and sync.RWMutex hands
\* a lock that is free again and again to a goroutine that waits for it.
SpecDefaultFair ==
    /\ SpecDefault
    /\ \A p \in Callers :
        SF_vars(\/ \E c \in DefaultCallsOf(p) : DefaultBegin(p, c)
                \/ ResetLock(p)
                \/ ResetBody(p)
                \/ Lock(p)
                \/ AddFlagBody(p)
                \/ AddVariantBody(p)
                \/ RegisterConditionTypeBody(p)
                \/ ConditionBody(p)
                \/ MergeDeleteFlag(p)
                \/ MergeDeleteVariant(p)
                \/ DefaultReturn(p))
    /\ SF_vars(\/ DefaultReadBegin
               \/ DefaultReadRLock
               \/ \E name \in FlagNames, context \in Contexts : DefaultRead(name, context)
               \/ DefaultReturn(Reader))

-----------------------------------------------------------------------------
(* What the properties speak of. *)

\* Variant v has a Mod for the flag name.
HasMod(v, name) == \E i \in 1..Len(v.Mods) : v.Mods[i].FlagName = name

\* The ids of the stored variants of reg that have a Mod for name.
Targeting(reg, name) ==
    {id \in DOMAIN reg.variants : HasMod(reg.variants[id], name)}

DocFlagNames(doc) == {doc.flag_defs[i].Name : i \in 1..Len(doc.flag_defs)}

DocVariantIDs(doc) == {doc.variants[i].ID : i \in 1..Len(doc.variants)}

\* The four maps are left as they are.
RegistryUnchanged == UNCHANGED <<flags, variants, conditionSpecs, flagToVariantIDMap>>

-----------------------------------------------------------------------------
(* The properties. *)

\* C1: when a read of a registered flag returns and no stored variant that has a Mod
\* for the flag can evaluate true on the context, the value returned is the flag's
\* base value.
C1_BaseValueWhenNoVariantMatches ==
    (/\ last.op = "FlagValueWithContext"
     /\ last.name \in DOMAIN flags
     /\ \A id \in Targeting(Receiver, last.name) :
            TRUE \notin EvaluateOutcomes(variants[id], last.context))
    => last.ret = flags[last.name].BaseValue

\* C2: after every call, the index set of every registered flag is exactly the set
\* of the ids of the stored variants that have a Mod for the flag.
C2_IndexIsExact ==
    \A name \in DOMAIN flags :
        IndexedIDs(Receiver, name) = Targeting(Receiver, name)

\* C3: an AddVariant of a variant one of whose Mods names an unregistered flag
\* returns an error, does not store the variant and leaves the index as it was.
C3_AddVariantAllOrNothing ==
    [][(/\ last'.op = "AddVariant"
        /\ \E i \in 1..Len(last'.variant.Mods) :
               last'.variant.Mods[i].FlagName \notin DOMAIN flags)
       => (/\ last'.err = "error"
           /\ variants' = variants
           /\ flagToVariantIDMap' = flagToVariantIDMap)]_vars

\* C4: a LoadJSON that returns an error leaves flags, variants and index as they
\* were before the call.
C4_LoadJSONAtomicOnFailure ==
    [][(last'.op = "LoadJSON" /\ last'.err = "error")
       => (/\ flags' = flags
           /\ variants' = variants
           /\ flagToVariantIDMap' = flagToVariantIDMap)]_vars

C6_ReloadTakesDocument ==
    (last.op = "ReloadJSON" /\ last.err = "nil")
    => /\ \A i \in 1..Len(last.doc.flag_defs) :
            LET f == last.doc.flag_defs[i]
            IN  f.Name \in DOMAIN flags /\ flags[f.Name] = f
       /\ \A j \in 1..Len(last.doc.variants) :
            LET v == last.doc.variants[j]
            IN  /\ v.ID \in DOMAIN variants
                /\ variants[v.ID].ID = v.ID
                /\ variants[v.ID].Mods = v.Mods
                /\ variants[v.ID].ConditionalOperator = v.ConditionalOperator
                /\ Len(variants[v.ID].Conditions) = Len(v.Conditions)
                /\ \A i \in 1..Len(v.Conditions) :
                    /\ variants[v.ID].Conditions[i].Type = v.Conditions[i].Type
                    /\ variants[v.ID].Conditions[i].Value = v.Conditions[i].Value
                    /\ variants[v.ID].Conditions[i].Values = v.Conditions[i].Values

\* C6, witness: a reload of a document with a flag and a variant returned nil on a
\* receiver that also holds a flag the document does not define.
C6_Witness ==
    /\ last.op = "ReloadJSON"
    /\ last.err = "nil"
    /\ Len(last.doc.flag_defs) > 0
    /\ Len(last.doc.variants) > 0
    /\ (DOMAIN flags) \ DocFlagNames(last.doc) # {}

\* C7: a reload leaves alone every flag g that the document does not define and
\* that no variant whose id is in the document has a Mod for, before or after the
\* reload: g's definition and the values a read of g can return stay the same.
C7_ReloadLeavesUnrelatedFlags ==
    [][(last'.op = "ReloadJSON" /\ last'.err = "nil")
       => \A g \in (DOMAIN flags) \ DocFlagNames(last'.doc) :
            (/\ Targeting(Receiver, g) \cap DocVariantIDs(last'.doc) = {}
             /\ Targeting(ReceiverNext, g) \cap DocVariantIDs(last'.doc) = {})
            => /\ g \in DOMAIN flags'
               /\ flags'[g] = flags[g]
               /\ \A context \in Contexts :
                    FlagValueResults(ReceiverNext, g, context)
                        = FlagValueResults(Receiver, g, context)]_vars

\* C8: a ReloadJSON that returns an error leaves the receiver as it was.
C8_ReloadErrorLeavesReceiver ==
    [][(last'.op = "ReloadJSON" /\ last'.err # "nil") => RegistryUnchanged]_vars

\* C8, witness: a reload returned an error on a receiver that holds flags and
\* variants.
C8_Witness ==
    /\ last.op = "ReloadJSON"
    /\ last.err = "error"
    /\ DOMAIN flags # {}
    /\ DOMAIN variants # {}

\* C9: a read that runs while goroutine p loads or reloads a document, and no other
\* goroutine has called, returns a value that a read can return on the registry as
\* it was when p's call began, or on the registry as p's call leaves it.
C9_ReadSeesBeforeOrAfter ==
    [][(pc[Reader] = "FlagValueWithContext" /\ pc'[Reader] = "idle")
       => \A p \in Callers :
            (/\ frame[p].op \in {"LoadJSON", "ReloadJSON"}
             /\ pc[p] \notin {"idle", "done", "panicked"}
             /\ \A q \in Callers \ {p} : pc[q] = "idle")
            => last'.ret \in
                    FlagValueResults(pre[p], last'.name, last'.context)
                    \cup FlagValueResults(
                            IF frame[p].op = "LoadJSON"
                            THEN LoadJSONOp(pre[p], frame[p].doc).reg
                            ELSE ReloadJSONOp(pre[p], frame[p].doc).reg,
                            last'.name, last'.context)]_vars

\* C10: every step that changes one of the four maps is taken by a goroutine that
\* holds the write lock, while no goroutine holds the read lock.
C10_WritesHoldLock ==
    [][<<flags, variants, conditionSpecs, flagToVariantIDMap>>'
            # <<flags, variants, conditionSpecs, flagToVariantIDMap>>
       => /\ \E p \in Callers : mu.writer = p /\ pc'[p] # pc[p]
          /\ mu.readers = {}]_vars

\* C11: while the reader holds the read lock, every id in the index set of a flag
\* is the id of a variant stored in the variants map.
C11_IndexedVariantsAreStored ==
    pc[Reader] = "FlagValueWithContext"
    => \A name \in DOMAIN flagToVariantIDMap :
            flagToVariantIDMap[name] \subseteq DOMAIN variants

\* C12: an AddFlag of a name that is registered and an AddVariant of an id that is
\* stored return an error and leave the four maps as they were.
C12_DuplicateLeavesRegistry ==
    [][(\/ last'.op = "AddFlag" /\ last'.flag.Name \in DOMAIN flags
        \/ last'.op = "AddVariant" /\ last'.variant.ID \in DOMAIN variants)
       => (last'.err = "error" /\ RegistryUnchanged)]_vars

\* C12, witness: an AddVariant returned an error for a stored id, and the variant
\* stored under the id has other Mods than the variant refused.
C12_Witness ==
    /\ last.op = "AddVariant"
    /\ last.err = "error"
    /\ last.variant.ID \in DOMAIN variants
    /\ variants[last.variant.ID].Mods # last.variant.Mods
    /\ DOMAIN flags = FlagNames

\* C13: every stored variant has at least one Mod.
C13_StoredVariantsHaveMods ==
    \A id \in DOMAIN variants : Len(variants[id].Mods) >= 1

\* A variant of the document has no Mod, or has two or more conditions and no
\* conditional operator.
Rejected(doc) ==
    \E j \in 1..Len(doc.variants) :
        \/ Len(doc.variants[j].Mods) = 0
        \/ Len(doc.variants[j].Conditions) >= 2 /\ doc.variants[j].ConditionalOperator = ""

JsContext(context) == IF context.kind = "nil" THEN IntMapContext(EmptyMap) ELSE context

\* C15: getFlagValue with a forced map, on a flag whose indexed variants are stored
\* and have a Mod for it, returns the Mod value of a variant that is not forced to
\* false and that is forced to true or evaluates true; it returns the base value
\* only when no variant is forced to true or evaluates true without being forced
\* to false.
C15_ForcedOverrides ==
    (/\ last.op = "getFlagValue"
     /\ last.name \in DOMAIN flags
     /\ IndexedIDs(Receiver, last.name) = Targeting(Receiver, last.name))
    => LET ids == IndexedIDs(Receiver, last.name)
           \* Variant id can be applied: it is not forced to false, and it is
           \* forced to true or can evaluate true.
           CanApply(id, context, forced) ==
               /\ ~ForcedOff(forced, id)
               /\ \/ ForcedOn(forced, id)
                  \/ BoolV(TRUE) \in JsEvaluateOutcomes(variants[id], JsContext(context))
           \* Variant id is applied whatever the random source gives.
           MustApply(id, context, forced) ==
               /\ ~ForcedOff(forced, id)
               /\ \/ ForcedOn(forced, id)
                  \/ JsEvaluateOutcomes(variants[id], JsContext(context)) = {BoolV(TRUE)}
       IN  last.ret \in
             {VariantFlagValue(variants[id], last.name) :
                 id \in {x \in ids : CanApply(x, last.context, last.forced)}}
             \cup (IF \E id \in ids : MustApply(id, last.context, last.forced)
                   THEN {}
                   ELSE {flags[last.name].BaseValue})

\* C15, witness: the only variant with a Mod for the flag never evaluates true, it
\* was forced to true, and getFlagValue returned its Mod value, which is not the
\* base value.
C15_Witness ==
    /\ last.op = "getFlagValue"
    /\ last.name \in DOMAIN flags
    /\ \E id \in DOMAIN variants :
        /\ IndexedIDs(Receiver, last.name) = {id}
        /\ JsEvaluateOutcomes(variants[id], JsContext(last.context)) = {BoolV(FALSE)}
        /\ ForcedOn(last.forced, id)
        /\ last.ret = VariantFlagValue(variants[id], last.name)
        /\ last.ret # flags[last.name].BaseValue

\* C16: Variant.Evaluate returns true for a variant with no condition, whatever
\* its conditional operator.
C16_NoConditionIsTrue ==
    (last.op = "Variant.Evaluate" /\ Len(last.variant.Conditions) = 0)
    => last.ret = BoolV(TRUE)

\* What condition i of the variant evaluated last gave.
ConditionResult(i) ==
    ConditionEvaluate(last.variant.Conditions[i], last.context, last.rnds[i])

\* C17: for a variant with one condition, Variant.Evaluate returns the condition's
\* result whatever the operator; with two or more conditions it returns whether all
\* are true under AND and whether one is true under OR.
C17_CombinationTable ==
    (last.op = "Variant.Evaluate" /\ Len(last.variant.Conditions) >= 1)
    => LET n == Len(last.variant.Conditions)
       IN  /\ n = 1 => last.ret = BoolV(ConditionResult(1))
           /\ (n >= 2 /\ last.variant.ConditionalOperator = conditionalOperatorAnd)
                => last.ret = BoolV(\A i \in 1..n : ConditionResult(i))
           /\ (n >= 2 /\ last.variant.ConditionalOperator = conditionalOperatorOr)
                => last.ret = BoolV(\E i \in 1..n : ConditionResult(i))

\* C17, witness: a variant with two conditions under OR, the first false and the
\* second true, evaluated true.
C17_Witness ==
    /\ last.op = "Variant.Evaluate"
    /\ Len(last.variant.Conditions) = 2
    /\ last.variant.ConditionalOperator = conditionalOperatorOr
    /\ ~ConditionResult(1)
    /\ ConditionResult(2)
    /\ last.ret = BoolV(TRUE)

\* Variant v has one condition, RANDOM with the probability of p units.
OnlyRandom(v, p) ==
    /\ Len(v.Conditions) = 1
    /\ v.Conditions[1].Type = conditionTypeRandom
    /\ v.Conditions[1].Value = NumV(p)
    /\ v.Conditions[1].Values = <<>>

\* C18: a read of a flag whose only indexed variant has one condition, RANDOM with
\* probability 1, returns the variant's Mod value.
C18_ProbabilityOneAlwaysFires ==
    (last.op = "FlagValueWithContext" /\ last.name \in DOMAIN flags)
    => \A id \in DOMAIN variants :
        (/\ IndexedIDs(Receiver, last.name) = {id}
         /\ HasMod(variants[id], last.name)
         /\ OnlyRandom(variants[id], RandScale))
        => last.ret = VariantFlagValue(variants[id], last.name)

\* C18, witness: the flag read has such a variant, and the read returned the Mod
\* value, which is not the base value.
C18_Witness ==
    /\ last.op = "FlagValueWithContext"
    /\ last.name \in DOMAIN flags
    /\ \E id \in DOMAIN variants :
        /\ IndexedIDs(Receiver, last.name) = {id}
        /\ HasMod(variants[id], last.name)
        /\ OnlyRandom(variants[id], RandScale)
        /\ last.ret = VariantFlagValue(variants[id], last.name)
        /\ last.ret # flags[last.name].BaseValue

\* C19: a read of a flag whose only indexed variant has one condition, RANDOM with
\* probability 0, returns the flag's base value.
C19_ProbabilityZeroNeverFires ==
    (last.op = "FlagValueWithContext" /\ last.name \in DOMAIN flags)
    => \A id \in DOMAIN variants :
        (/\ IndexedIDs(Receiver, last.name) = {id}
         /\ HasMod(variants[id], last.name)
         /\ OnlyRandom(variants[id], 0))
        => last.ret = flags[last.name].BaseValue

\* C20: a MOD_RANGE condition built from a key and two whole numbers range_begin
\* and range_end, evaluated on a context that maps the key to v >= 0, is true
\* exactly when range_begin <= v mod 100 <= range_end.
C20_ModRangeInclusive ==
    (/\ last.op = "Condition.Evaluate"
     /\ last.condition.Type = conditionTypeModRange
     /\ last.condition.Values[2].n % RandScale = 0
     /\ last.condition.Values[3].n % RandScale = 0
     /\ last.context.kind = "map[string]int"
     /\ last.condition.Values[1].s \in DOMAIN last.context.m
     /\ last.context.m[last.condition.Values[1].s] >= 0)
    => LET v == last.context.m[last.condition.Values[1].s]
           range_begin == last.condition.Values[2].n \div RandScale
           range_end == last.condition.Values[3].n \div RandScale
       IN  last.ret = BoolV(range_begin <= v % 100 /\ v % 100 <= range_end)

\* C20, witness: the condition with the range 0 to 9 was true on a user_id of 109,
\* whose remainder is the end of the range.
C20_Witness ==
    /\ last.op = "Condition.Evaluate"
    /\ last.condition.Values = <<StrV("user_id"), NumV(0), NumV(9 * RandScale)>>
    /\ last.context = IntMapContext([k \in {"user_id"} |-> 109])
    /\ last.ret = BoolV(TRUE)

\* C21: a MOD_RANGE condition evaluated on a map[string]int context that does not
\* have the condition's key is false.
C21_AbsentKeyIsFalse ==
    (/\ last.op = "Condition.Evaluate"
     /\ last.condition.Type = conditionTypeModRange
     /\ last.context.kind = "map[string]int"
     /\ last.condition.Values[1].s \notin DOMAIN last.context.m)
    => last.ret = BoolV(FALSE)

\* C22: the remainder the MOD_RANGE evaluator compares lies in 0..99, and the
\* condition gives the same result on a context value moved by a multiple of 100,
\* below zero too.
C22_NonNegativeModulo ==
    (/\ last.op = "Condition.Evaluate"
     /\ last.condition.Type = conditionTypeModRange
     /\ last.context.kind = "map[string]int"
     /\ last.condition.Values[1].s \in DOMAIN last.context.m)
    => LET key == last.condition.Values[1].s
           \* The context with the value of key moved by d.
           Shifted(context, k0, d) ==
               [context EXCEPT !.m = [k \in DOMAIN context.m |->
                                         IF k = k0 THEN context.m[k] + d ELSE context.m[k]]]
       IN  /\ GoRem(last.context.m[key], 100) \in 0..99
           /\ \A d \in {-200, -100, 100, 200} :
                BoolV(ConditionEvaluate(last.condition, Shifted(last.context, key, d), 0))
                    = last.ret

\* C23: a condition with no evaluator is false, a MOD_RANGE condition is false on a
\* context that is not a map[string]int, and a read with a nil context of a flag
\* whose indexed variants each have one condition, MOD_RANGE, returns the base value.
C23_EvaluationNeverRaises ==
    /\ (/\ last.op = "Condition.Evaluate"
        /\ \/ last.condition.Evaluator.kind = "nil"
           \/ /\ last.condition.Type = conditionTypeModRange
              /\ last.context.kind # "map[string]int")
       => last.ret = BoolV(FALSE)
    /\ (/\ last.op = "FlagValueWithContext"
        /\ last.name \in DOMAIN flags
        /\ last.context.kind = "nil"
        /\ \A id \in IndexedIDs(Receiver, last.name) :
            /\ id \in DOMAIN variants
            /\ Len(variants[id].Conditions) = 1
            /\ variants[id].Conditions[1].Type = conditionTypeModRange)
       => last.ret = flags[last.name].BaseValue

\* C23, witness: a condition whose factory returned nil was evaluated on a context
\* that has its key, with a value in the range 0 to 0 of the zero evaluator, and was
\* false.
C23_Witness ==
    /\ last.op = "Condition.Evaluate"
    /\ last.condition.Evaluator.kind = "nil"
    /\ last.condition.Type = conditionTypeModRange
    /\ last.context.kind = "map[string]int"
    /\ last.ret = BoolV(FALSE)

\* C24: a LoadJSON that returned nil was given no condition whose type, in upper
\* case, has no registered factory.
C24_UnknownTypeIsAnError ==
    (last.op = "LoadJSON" /\ last.err = "nil")
    => \A j \in 1..Len(last.doc.variants) :
        \A k \in 1..Len(last.doc.variants[j].Conditions) :
            ToUpper(last.doc.variants[j].Conditions[k].Type) \in DOMAIN conditionSpecs

\* C25: a LoadJSON that returned nil was given no condition whose registered
\* factory returns nil for the condition's parameters.
C25_RejectedParametersAreAnError ==
    (last.op = "LoadJSON" /\ last.err = "nil")
    => \A j \in 1..Len(last.doc.variants) :
        \A k \in 1..Len(last.doc.variants[j].Conditions) :
            LET c == last.doc.variants[j].Conditions[k]
            IN  c.Type \in DOMAIN conditionSpecs
                => BuildCondition(Receiver, c).Evaluator # NoEvaluator

\* C26: a LoadJSON that returned nil was given no condition with both a value and
\* a values list.
C26_ValueAndValuesIsAnError ==
    (last.op = "LoadJSON" /\ last.err = "nil")
    => \A j \in 1..Len(last.doc.variants) :
        \A k \in 1..Len(last.doc.variants[j].Conditions) :
            LET c == last.doc.variants[j].Conditions[k]
            IN  ~(c.Value # NilV /\ Len(c.Values) > 0)

\* C27: after a LoadJSON that returned nil, every condition of every variant of the
\* document is stored with the evaluator that the factory registered under the
\* condition's type in upper case builds.
C27_TypeMatchedIgnoringCase ==
    (last.op = "LoadJSON" /\ last.err = "nil")
    => \A j \in 1..Len(last.doc.variants) :
        \A k \in 1..Len(last.doc.variants[j].Conditions) :
            LET v == last.doc.variants[j]
                c == v.Conditions[k]
            IN  variants[v.ID].Conditions[k].Evaluator
                    = BuildCondition(Receiver, [c EXCEPT !.Type = ToUpper(c.Type)]).Evaluator

\* C28: a RegisterConditionType of an id that is registered in upper case returns
\* an error and leaves the registry as it was; of another id, it stores the
\* factory under the id in upper case.
C28_RegisterUpperCases ==
    [][last'.op = "RegisterConditionType"
       => IF ToUpper(last'.name) \in DOMAIN conditionSpecs
          THEN last'.err = "error" /\ RegistryUnchanged
          ELSE /\ last'.err = "nil"
               /\ DOMAIN conditionSpecs' = DOMAIN conditionSpecs \cup {ToUpper(last'.name)}
               /\ \A id \in DOMAIN conditionSpecs : conditionSpecs'[id] = conditionSpecs[id]]_vars

\* C28, witness: on a registry with the built-in types only, RegisterConditionType
\* of "random" returned an error and RANDOM has its built-in factory.
C28_Witness ==
    /\ last.op = "RegisterConditionType"
    /\ last.name = "random"
    /\ last.err = "error"
    /\ DOMAIN conditionSpecs = {conditionTypeRandom, conditionTypeModRange}
    /\ conditionSpecs[conditionTypeRandom] = "randomSpec"

\* C29: Variant.FlagValue gives an error when the variant has no Mod for the name,
\* and the value of the Mod when it has one.
C29_FlagValueFailsWithoutMod ==
    last.op = "Variant.FlagValue"
    => IF HasMod(last.variant, last.name)
       THEN \E i \in 1..Len(last.variant.Mods) :
                /\ last.variant.Mods[i].FlagName = last.name
                /\ last.ret = last.variant.Mods[i].Value
       ELSE last.ret = Thrown

\* C30: every Mod of every stored variant names a registered flag.
C30_ModsNameRegisteredFlags ==
    \A id \in DOMAIN variants :
        \A i \in 1..Len(variants[id].Mods) :
            variants[id].Mods[i].FlagName \in DOMAIN flags

\* C30, witness: after a reload that returned nil, a stored variant has Mods for
\* two flags.
C30_Witness ==
    /\ last.op = "ReloadJSON"
    /\ last.err = "nil"
    /\ \E id \in DOMAIN variants :
        /\ HasMod(variants[id], "f")
        /\ HasMod(variants[id], "g")

C32_FlagsBeforeVariants ==
    LET NamesMissingFlag(reg, doc) ==
        \E j \in 1..Len(doc.variants) : \E i \in 1..Len(doc.variants[j].Mods) :
            doc.variants[j].Mods[i].FlagName \notin DocFlagNames(doc) \cup DOMAIN reg.flags
        Loadable(reg, doc) ==
        /\ \A i, k \in 1..Len(doc.flag_defs) :
                i # k => doc.flag_defs[i].Name # doc.flag_defs[k].Name
        /\ DocFlagNames(doc) \cap DOMAIN reg.flags = {}
        /\ \A j, k \in 1..Len(doc.variants) : j # k => doc.variants[j].ID # doc.variants[k].ID
        /\ DocVariantIDs(doc) \cap DOMAIN reg.variants = {}
        /\ ~Rejected(doc)
    IN
    \A doc \in Docs :
        LET res == LoadJSONOp(Receiver, doc)
        IN  /\ NamesMissingFlag(Receiver, doc) => res.err = "error"
            /\ (Loadable(Receiver, doc) /\ ~NamesMissingFlag(Receiver, doc))
               => /\ res.err = "nil"
                  /\ DocFlagNames(doc) \subseteq DOMAIN res.reg.flags
                  /\ DocVariantIDs(doc) \subseteq DOMAIN res.reg.variants
            /\ \A f \in FlagPool :
                LET with == AddFlagOp(Receiver, f)
                IN  (/\ with.err = "nil"
                     /\ Loadable(with.reg, doc)
                     /\ NamesMissingFlag(Receiver, doc)
                     /\ ~NamesMissingFlag(with.reg, doc))
                    => LoadJSONOp(with.reg, doc).err = "nil"
            /\ LoadFlags(Receiver, doc.flag_defs, 1).err = "nil"
               => DocFlagNames(doc) \subseteq DOMAIN res.reg.flags
            /\ \A j \in 1..Len(doc.variants) :
                (/\ doc.variants[j].ID \notin DOMAIN variants
                 /\ doc.variants[j].ID \in DOMAIN res.reg.variants)
                => \A k \in 1..j : doc.variants[k].ID \in DOMAIN res.reg.variants

\* C32, witness: a LoadJSON returned nil for a document with a variant that has a
\* Mod for a flag the document defines and a Mod for a flag it does not define,
\* which was registered before.
C32_Witness ==
    /\ last.op = "LoadJSON"
    /\ last.err = "nil"
    /\ \E j \in 1..Len(last.doc.variants) :
        /\ \E i \in 1..Len(last.doc.variants[j].Mods) :
            last.doc.variants[j].Mods[i].FlagName \in DocFlagNames(last.doc)
        /\ \E i \in 1..Len(last.doc.variants[j].Mods) :
            last.doc.variants[j].Mods[i].FlagName \notin DocFlagNames(last.doc)

\* C33: when the LoadJSON calls of the two goroutines on a new registry have both
\* returned, the registry and the two errors returned are what the two loads leave
\* and return when one of them runs to its end before the other begins.
C33_LoadsSerializable ==
    (\A p \in Callers : pc[p] = "done")
    => \E p \in Callers :
        LET q == CHOOSE x \in Callers : x # p
            first == LoadJSONOp(NewRegistry, frame[p].doc)
            second == LoadJSONOp(first.reg, frame[q].doc)
        IN  /\ Receiver = second.reg
            /\ frame[p].err = first.err
            /\ frame[q].err = second.err

\* C34: under fair scheduling, every call that a goroutine has begun through the
\* package (AddFlag, AddVariant, RegisterConditionType, LoadJSON, ReloadJSON,
\* FlagValueWithContext, Reset) returns in the end, and the goroutine then holds
\* no lock.
C34_EveryCallReturns ==
    \A p \in Goroutines :
        (pc[p] # "idle")
        ~> (/\ pc[p] = "returned"
            /\ mu.writer # p
            /\ p \notin mu.readers
            /\ defaultRegistryMu.writer # p
            /\ p \notin defaultRegistryMu.readers)

\* C35: the step of Reset that puts the new registry in the place of the
\* DefaultRegistry is taken when no other goroutine is inside a call through the
\* package, so that every such call runs from its begin to its return on one
\* registry; and it leaves a DefaultRegistry with no flags, no variants, an empty
\* index and the condition types RANDOM and MOD_RANGE alone.
C35_ResetIsAtomic ==
    [][\A p \in Callers :
        (pc[p] = "Reset" /\ pc'[p] = "returned")
        => /\ \A q \in Goroutines \ {p} : pc[q] \in {"idle", "returned"}
           /\ DOMAIN flags' = {}
           /\ DOMAIN variants' = {}
           /\ DOMAIN flagToVariantIDMap' = {}
           /\ DOMAIN conditionSpecs' = {conditionTypeRandom, conditionTypeModRange}
           /\ conditionSpecs' = NewRegistry.conditionSpecs]_vars

\* C35, witness: Reset has returned after a call of another goroutine; the registry
\* it replaced held a flag, a variant and the condition type CUSTOM; the
\* DefaultRegistry is as NewRegistry makes it.
C35_Witness ==
    \E p \in Callers :
        /\ frame[p].op = "Reset"
        /\ pc[p] = "returned"
        /\ DOMAIN pre[p].flags # {}
        /\ DOMAIN pre[p].variants # {}
        /\ "CUSTOM" \in DOMAIN pre[p].conditionSpecs
        /\ Receiver = NewRegistry
        /\ \E q \in Callers \ {p} : pc[q] = "returned"

\* C36: on a registry that holds no flags and no variants, whatever condition types
\* were registered on it, ReloadJSON and LoadJSON of a document both return nil or
\* both return an error, and when they return nil a read of every flag on every
\* context can return the same values after the one as after the other.
C36_ReloadIsLoadOnEmpty ==
    (DOMAIN flags = {} /\ DOMAIN variants = {})
    => \A doc \in LoadDocs :
        LET loaded == LoadJSONOp(Receiver, doc)
            reloaded == ReloadJSONOp(Receiver, doc)
        IN  /\ (loaded.err = "nil") <=> (reloaded.err = "nil")
            /\ loaded.err = "nil"
               => \A name \in FlagNames, context \in Contexts :
                    FlagValueResults(loaded.reg, name, context)
                        = FlagValueResults(reloaded.reg, name, context)

\* C37: on every registry and for every document whose reload returns nil, a second
\* ReloadJSON of the document right after the first returns nil and leaves the
\* flags, the variants, the index and the condition types that the first left.
C37_ReloadIdempotent ==
    \A doc \in Docs :
        LET once == ReloadJSONOp(Receiver, doc)
        IN  once.err = "nil" => ReloadJSONOp(once.reg, doc) = once

\* C37, witness: a reload of a document with flags and variants returned nil on a
\* registry that holds a variant the document does not have, and the index set it
\* leaves for one of the document's flags is not the set of the stored variants
\* with a Mod for the flag.
C37_Witness ==
    /\ last.op = "ReloadJSON"
    /\ last.err = "nil"
    /\ Len(last.doc.flag_defs) > 0
    /\ Len(last.doc.variants) > 0
    /\ (DOMAIN variants) \ DocVariantIDs(last.doc) # {}
    /\ \E name \in DocFlagNames(last.doc) :
        IndexedIDs(Receiver, name) # Targeting(Receiver, name)

\* C38: in every registry state, for every flag name and context, when no RANDOM
\* condition is involved and at most one stored variant with a Mod for the flag
\* evaluates true on the context, all reads of the flag on the context return one
\* and the same value, whatever the order of the iteration.
C38_Deterministic ==
    \A name \in FlagNames, context \in Contexts :
        (/\ \A id \in (Targeting(Receiver, name) \cup IndexedIDs(Receiver, name))
                            \cap DOMAIN variants :
                \A i \in 1..Len(variants[id].Conditions) :
                    variants[id].Conditions[i].Type # conditionTypeRandom
         /\ Cardinality({id \in Targeting(Receiver, name) :
                            TRUE \in EvaluateOutcomes(variants[id], context)}) <= 1)
        => Cardinality(FlagValueResults(Receiver, name, context)) = 1

\* C39: a FlagValueWithContext leaves flags (every base value), variants, condition
\* types and index as they were, for a registered and for an unregistered name; for
\* an unregistered name it returns nil, and the name is in neither the flags nor
\* the index afterwards.
C39_ReadChangesNothing ==
    [][last'.op = "FlagValueWithContext"
       => /\ RegistryUnchanged
          /\ last'.name \notin DOMAIN flags
             => /\ last'.ret = NilV
                /\ last'.name \notin DOMAIN flags'
                /\ last'.name \notin DOMAIN flagToVariantIDMap']_vars

\* C39, witness: a read of a name that is not registered returned nil on a registry
\* that holds a flag and a variant with a Mod for that flag.
C39_Witness ==
    /\ last.op = "FlagValueWithContext"
    /\ last.name \notin DOMAIN flags
    /\ last.ret = NilV
    /\ \E name \in DOMAIN flags : IndexedIDs(Receiver, name) \cap DOMAIN variants # {}

\* C40: a variant with two or more conditions and a conditional operator that is a
\* string other than "AND" and "OR" evaluates false on every context, whatever its
\* conditions give; LoadJSON of a document with the variant and AddVariant of the
\* variant return nil and store it; and a read of the flag of its Mod returns the
\* base value.
C40_UnknownOperatorIsFalse ==
    (/\ last.op = "Variant.Evaluate"
     /\ Len(last.variant.Conditions) >= 2
     /\ last.variant.ConditionalOperator
            \notin {"", conditionalOperatorAnd, conditionalOperatorOr})
    => LET f == Flag("f", BoolV(TRUE))
           loaded == LoadJSONOp(NewRegistry,
                                [flag_defs |-> <<f>>, variants |-> <<last.variant>>])
           added == AddVariantOp(AddFlagOp(NewRegistry, f).reg, last.variant)
       IN  /\ last.ret = BoolV(FALSE)
           /\ loaded.err = "nil"
           /\ added.err = "nil"
           /\ last.variant.ID \in DOMAIN loaded.reg.variants
           /\ added.reg = loaded.reg
           /\ FlagValueResults(loaded.reg, "f", last.context) = {BoolV(TRUE)}

\* C40, witness: a variant with the operator "and" and two conditions that both
\* gave true evaluated false.
C40_Witness ==
    /\ last.op = "Variant.Evaluate"
    /\ Len(last.variant.Conditions) = 2
    /\ last.variant.ConditionalOperator = "and"
    /\ HasMod(last.variant, "f")
    /\ ConditionResult(1)
    /\ ConditionResult(2)
    /\ last.ret = BoolV(FALSE)

====
